---- MODULE Spec2Model ----
(***************************************************************************)
(* PriceUpdateService (src/services/websocketService.ts): the subscriber   *)
(* registry, the recurring poll timer, the one-shot backoff timer and the  *)
(* poll cycles (executions of fetchPrices) of the price feed.              *)
(*                                                                         *)
(* JavaScript runs each handler to its next await without interleaving, so *)
(* one action is one such run: a public call (subscribe, unsubscribe,      *)
(* disconnect), a timer callback, or the continuation of a poll cycle      *)
(* after an await (the inter-batch delay, Promise.all of a batch).         *)
(***************************************************************************)
EXTENDS Integers, Sequences, FiniteSets, Bags

\* ------------------------------------------------------------------ bounds

\* Poll cycles that may be in flight at once (the code has no such limit).
MaxCycles == 2
\* The same, where cycles have several batches.
MaxBatchCycles == 1
\* Backoff timeouts left pending in the scheduler after their handle was
\* overwritten (the code has no such limit).
MaxStray == 1
\* The most symbols subscribed where the batches of a cycle are followed.
MaxSymbols == 7
\* The most points of a price history given to the anomaly detector.
MaxHistory == 4
\* The highest live price given to the anomaly detector.
MaxLive == 7
\* The most runs of the detector's effect that are followed.
MaxEvaluations == 2
\* The calls of loadData a CryptoPrice component makes.
MaxLoads == 3

\* --------------------------------------------------------- program constants

MAX_RETRIES == 3
INITIAL_RETRY_DELAY == 2000
MAX_RETRY_DELAY == 10000
MAX_BACKOFF == 300000
MIN_BACKOFF == 60000
BATCH_SIZE == 3

\* ------------------------------------------------------------------ inputs

\* Symbols a caller may pass; the service uses them as given.
Symbols == {"BTC", "ETH", "SOL", "XRP"}
PriceCallbacks == {"cb1", "cb2"}
\* The optional errorHandler argument: a callback, or left out.
None == "none"
ErrorCallbacks == {"err1"}

\* The sets of callbacks that throw, one of which a delivery draws.
ThrowerSets == {{}, {"cb1"}, {"err1"}}
\* What getCurrentPrice does for one symbol: it returns a quote, throws an
\* error whose message contains 'Rate limit exceeded', or throws another error.
Outcomes == {"ok", "rateLimit", "error"}

\* The calls of subscribe and unsubscribe a specification draws from: one
\* symbol with every choice of callback and error handler and a second symbol
\* (one batch per cycle), or four symbols with one callback each (two batches
\* per cycle).
Calls ==
    ({"BTC"} \X PriceCallbacks \X (ErrorCallbacks \cup {None}))
        \cup {<<"ETH", "cb1", None>>}
BatchCalls == Symbols \X {"cb1"} \X {None}

\* The symbols subscribed, in the order of their first subscription, where
\* the batches of a cycle are followed: the first n of these.
SymbolList == <<"BTC", "ETH", "SOL", "XRP", "DOGE", "ADA", "DOT", "LTC", "BNB">>

\* The calls made where the timers are followed under fairness: two symbols,
\* one callback.
TimerCalls == {"BTC", "ETH"} \X {"cb1"} \X {None}

\* The calls made where the error callbacks called by an escalation are
\* followed: two symbols, one callback, with or without the error handler.
HandlerCalls == ({"BTC"} \X {"cb1"} \X (ErrorCallbacks \cup {None})) \cup {<<"ETH", "cb1", None>>}

\* The one call made while the batches of a cycle are followed.
SliceCalls == {<<"BTC", "cb1", None>>}

\* Calls that name one coin in two spellings.
CaseCalls == {"btc", "BTC"} \X {"cb1"} \X {None}

\* String.prototype.toUpperCase on the symbols of the calls.
ToUpperCase(symbol) ==
    CASE symbol = "btc" -> "BTC"
      [] symbol = "eth" -> "ETH"
      [] OTHER -> symbol

VARIABLES
    subscribers,      \* Map<string, Set<PriceCallback>>: function on its keys
    keyOrder,         \* the keys of subscribers in insertion order
    errorHandlers,    \* Map<string, Set<ErrorCallback>>: function on its keys
    pollingInterval,  \* TRUE iff the field holds a live interval handle
    backoffTimeout,   \* TRUE iff the field holds a pending timeout handle
    strayTimeouts,    \* pending backoff timeouts whose handle was overwritten
    currentBackoff,
    isPolling,
    cycles,           \* the executions of fetchPrices suspended at an await
    rlStreak,         \* history: finished cycles in a row that saw a rate limit
    last,             \* history: the handler that ran last, and what it did
    effects,          \* history: what the last handler did to the outside
                      \* (callbacks invoked, timeout set), where it is observed
    api,              \* one call of coingeckoApi: its loop variable, whether
                      \* it is running, and (history) the responses it got
                      \* and the delays it awaited
    detector,         \* one AnomalyDetector component: its props, its stats
                      \* state, whether its effect is due to run, and
                      \* (history) the verdicts passed to onAnomalyDetected
    cryptoPrice       \* one CryptoPrice component: its state, the deps its
                      \* effects last ran with, its calls of loadData in
                      \* flight, its pending timers, and (history) the
                      \* calls of loadData made and how they ended

feed == <<subscribers, keyOrder, errorHandlers, pollingInterval, backoffTimeout,
          strayTimeouts, currentBackoff, isPolling, cycles, rlStreak, last, effects>>

vars == <<subscribers, keyOrder, errorHandlers, pollingInterval, backoffTimeout,
          strayTimeouts, currentBackoff, isPolling, cycles, rlStreak, last, effects, api,
          detector, cryptoPrice>>

\* ------------------------------------------------------------------ helpers

Min(a, b) == IF a < b THEN a ELSE b

EmptyMap == [x \in {} |-> {}]
MapSet(m, k, v) == [x \in (DOMAIN m) \cup {k} |-> IF x = k THEN v ELSE m[x]]
MapDelete(m, k) == [x \in (DOMAIN m) \ {k} |-> m[x]]
SeqRemove(s, k) == SelectSeq(s, LAMBDA x : x # k)
RemoveAt(s, n) == SubSeq(s, 1, n - 1) \o SubSeq(s, n + 1, Len(s))

\* Mutant of Slice: the last element of the slice is left out.
Slice_DropsLast(s, from, to) == SubSeq(s, from + 1, Min(to, Len(s)) - 1)

\* Array.prototype.slice(from, to), 0 <= from <= to.
Slice(s, from, to) == SubSeq(s, from + 1, Min(to, Len(s)))

\* The concatenation of a sequence of sequences.
RECURSIVE Flatten(_)
Flatten(ss) == IF Len(ss) = 0 THEN << >> ELSE Head(ss) \o Flatten(Tail(ss))

Other == [op |-> "other"]

\* No effect observed.
NoEffects == [op |-> "none"]

\* What a callback is passed. PriceData carries the symbol of the result
\* (lines 67-73); the error of a failed fetch is the one getCurrentPrice
\* threw for the symbol (line 65); the error of handleRateLimit carries the
\* delay in its message (line 141).
PriceData(symbol) == [what |-> "price", symbol |-> symbol, delay |-> 0]
FetchError(symbol, outcome) == [what |-> outcome, symbol |-> symbol, delay |-> 0]
RateLimitError(delay) == [what |-> "retryIn", symbol |-> None, delay |-> delay]

\* One call of a callback: the map and key it was found under, and its
\* argument.
Invocation(map, key, cb, arg) == [map |-> map, key |-> key, cb |-> cb, arg |-> arg]

\* The sum of the bags F[k], k in the domain of F.
RECURSIVE SumBags(_)
SumBags(F) ==
    IF DOMAIN F = {} THEN EmptyBag
    ELSE LET k == CHOOSE x \in DOMAIN F : TRUE
         IN  F[k] (+) SumBags([x \in (DOMAIN F) \ {k} |-> F[x]])

\* ---------------------------------------------------------- coingeckoApi

\* response.headers.get('retry-after') of a response without the header.
NoHeader == -1

\* What one `await fetch(...)` and `await response.text()` of coingeckoApi
\* can give: a rejection (the abort of the 30 s timeout, or a network
\* failure), or a response with a status, a retry-after header in seconds and
\* a body text.
Rejections ==
    [kind : {"reject"}, error : {"AbortError", "TypeError"}, status : {0},
     retryAfter : {NoHeader}, text : {""}]
Responses ==
    [kind : {"response"}, error : {""}, status : {200}, retryAfter : {NoHeader},
     text : {"[1]", "[2]", "null", "<html>"}]
    \cup [kind : {"response"}, error : {""}, status : {429},
          retryAfter : {NoHeader, 1, 30}, text : {""}]
    \cup [kind : {"response"}, error : {""}, status : {500}, retryAfter : {NoHeader},
          text : {"oops"}]

\* What the request of a quote, /simple/price?ids=BTC&vs_currencies=USD, can
\* give: the quote, an object without the coin, a 429 with or without a
\* retry-after header, a failure of the server whose body is some text or
\* the text 'Rate limit exceeded', or a rejection.
QuoteResponses ==
    Rejections
    \cup [kind : {"response"}, error : {""}, status : {200}, retryAfter : {NoHeader},
          text : {"{\"BTC\":{\"USD\":1}}", "{}"}]
    \cup [kind : {"response"}, error : {""}, status : {429},
          retryAfter : {NoHeader, 1}, text : {""}]
    \cup [kind : {"response"}, error : {""}, status : {500}, retryAfter : {NoHeader},
          text : {"oops", "Rate limit exceeded"}]

\* response.ok
Ok(r) == r.status >= 200 /\ r.status <= 299

\* JSON.parse on the body texts of Responses and QuoteResponses: whether the
\* text parses, and the value (the items of an array, the keys of an object).
JsonParse(text) ==
    CASE text = "[1]" ->
           [parses |-> TRUE, type |-> "array", items |-> << 1 >>, keys |-> {}]
      [] text = "[2]" ->
           [parses |-> TRUE, type |-> "array", items |-> << 2 >>, keys |-> {}]
      [] text = "null" ->
           [parses |-> TRUE, type |-> "null", items |-> << >>, keys |-> {}]
      [] text = "{\"BTC\":{\"USD\":1}}" ->
           [parses |-> TRUE, type |-> "object", items |-> << >>, keys |-> {"BTC"}]
      [] text = "{}" ->
           [parses |-> TRUE, type |-> "object", items |-> << >>, keys |-> {}]
      [] OTHER ->
           [parses |-> FALSE, type |-> "none", items |-> << >>, keys |-> {}]

\* !data
Falsy(data) == data.type = "null"

\* Math.pow(2, n), n a natural number
RECURSIVE Pow2(_)
Pow2(n) == IF n = 0 THEN 1 ELSE 2 * Pow2(n - 1)

\* Mutant of RetryDelay: the exponent is attempt, not attempt - 1.
RetryDelay_ExponentOff(attempt) ==
    Min(INITIAL_RETRY_DELAY * Pow2(attempt), MAX_RETRY_DELAY)

\* cappedRetryDelay of lines 99-100
RetryDelay(attempt) ==
    Min(INITIAL_RETRY_DELAY * Pow2(attempt - 1), MAX_RETRY_DELAY)

\* cappedWaitTime of lines 59-60 (a retry-after value is a string of digits,
\* so it is truthy even when 0)
RateLimitWait(attempt, retryAfter) ==
    Min(IF retryAfter # NoHeader THEN retryAfter * 1000
        ELSE INITIAL_RETRY_DELAY * Pow2(attempt - 1),
        MAX_RETRY_DELAY)

\* The message of the error thrown inside the try block for a response, or
\* of the rejection; "" if nothing is thrown.
Thrown(r) ==
    IF r.kind = "reject" THEN r.error
    ELSE IF ~Ok(r) THEN "API request failed"
    ELSE IF ~JsonParse(r.text).parses THEN "Invalid JSON response"
    ELSE IF Falsy(JsonParse(r.text)) THEN "Empty response received"
    ELSE ""

\* No call of coingeckoApi is running.
NoCall ==
    [status |-> "idle", attempt |-> 0, responses |-> << >>, waits |-> << >>,
     lastError |-> "", data |-> JsonParse(""), message |-> ""]

\* A call that has entered the loop: attempt = 1, lastError = null.
NewCall ==
    [status |-> "running", attempt |-> 1, responses |-> << >>, waits |-> << >>,
     lastError |-> "", data |-> JsonParse(""), message |-> ""]

\* One iteration of the loop of lines 33-103 of call c, whose request gets r:
\* up to the return, a throw out of the function, or the end of the wait
\* before the next iteration. A 429 waits and continues without passing
\* through the catch clause; whatever is thrown inside the try block is
\* caught, and either rethrown on the last attempt or waited out. The loop
\* left by the 429 of the last attempt ends in the throw of line 105.
Attempt(c, r) ==
    LET got == [c EXCEPT !.responses = Append(@, r)]
        next == IF c.attempt = MAX_RETRIES
                THEN [got EXCEPT !.status = "threw", !.message = "Failed to fetch data"]
                ELSE [got EXCEPT !.attempt = c.attempt + 1]
    IN  IF r.kind = "response" /\ r.status = 429
        THEN [next EXCEPT !.waits = Append(@, RateLimitWait(c.attempt, r.retryAfter))]
        ELSE IF Thrown(r) = ""
        THEN [got EXCEPT !.status = "returned", !.data = JsonParse(r.text),
                         !.waits = Append(@, 0)]
        ELSE IF c.attempt = MAX_RETRIES
        THEN [got EXCEPT !.status = "threw", !.lastError = Thrown(r),
                         !.message = "Failed after 3 attempts",
                         !.waits = Append(@, 0)]
        ELSE [got EXCEPT !.attempt = c.attempt + 1, !.lastError = Thrown(r),
                         !.waits = Append(@, RetryDelay(c.attempt))]

\* The message of the last failure that the error thrown out of call c
\* carries: `Failed after 3 attempts: ${lastError.message}` of lines 94-96
\* carries that of the error just caught, 'Failed to fetch data' of line 105
\* carries none.
Carried(c) ==
    IF c.status = "threw" /\ c.message = "Failed after 3 attempts" THEN c.lastError
    ELSE ""

\* error.message.includes('Rate limit exceeded') on the error thrown out of
\* call c. Neither 'Failed to fetch data' nor 'Failed after 3 attempts: '
\* contains the text; the message of the last failure does when it embeds a
\* body that does (`\nResponse: ${responseText}` of line 67, the first 100
\* characters of the body at line 77).
IncludesRateLimitExceeded(c) ==
    /\ c.status = "threw"
    /\ Carried(c) \in {"API request failed", "Invalid JSON response"}
    /\ c.responses[Len(c.responses)].text = "Rate limit exceeded"

\* What the promise of one symbol of a batch resolves to (lines 52-59) when
\* the coingeckoApi call c of getCurrentPrice(symbol, 'USD') has ended:
\* getCurrentPrice throws unless the value returned has the key coinId
\* (lines 167-169) and rethrows what coingeckoApi throws (lines 181-184);
\* the promise catches either and resolves with the error.
GetCurrentPrice(c, coinId) ==
    IF c.status = "returned"
    THEN IF coinId \in c.data.keys THEN "ok" ELSE "error"
    ELSE IF IncludesRateLimitExceeded(c) THEN "rateLimit" ELSE "error"

\* ------------------------------------------------------- private methods

\* The state after construction of the fields: lines 15-23.
Fields ==
    [subscribers |-> EmptyMap, errorHandlers |-> EmptyMap,
     pollingInterval |-> FALSE, backoffTimeout |-> FALSE,
     currentBackoff |-> 60000, isPolling |-> FALSE]

\* Mutant of StartPolling: the backoff timeout is not cleared.
StartPolling_KeepsTimeout == [pollingInterval |-> TRUE, backoffTimeout |-> TRUE]

\* startPolling(): clears the backoff timeout the field holds, replaces the
\* interval. What it writes to the two timer fields.
StartPolling == [pollingInterval |-> TRUE, backoffTimeout |-> FALSE]

\* Mutant of Cleanup: the interval is not cleared.
Cleanup_KeepsInterval ==
    [pollingInterval |-> pollingInterval, backoffTimeout |-> FALSE, isPolling |-> FALSE]

\* cleanup(): clears both timers and the in-flight flag. A cycle suspended at
\* an await is not cancelled, and neither is a timeout whose handle is lost.
Cleanup == [pollingInterval |-> FALSE, backoffTimeout |-> FALSE, isPolling |-> FALSE]

\* Mutant of HandleRateLimit: the interval is not cleared before the timeout
\* is armed.
HandleRateLimit_KeepsInterval(backoff, armed, stray) ==
    [pollingInterval |-> pollingInterval,
     currentBackoff |-> Min(backoff * 2, MAX_BACKOFF),
     error |-> RateLimitError(Min(backoff * 2, MAX_BACKOFF)),
     backoffTimeout |-> TRUE,
     timeoutDelay |-> Min(backoff * 2, MAX_BACKOFF),
     strayTimeouts |-> IF armed THEN stray + 1 ELSE stray]

\* Mutant of HandleRateLimit: the error is built before the delay is doubled.
HandleRateLimit_StaleError(backoff, armed, stray) ==
    [pollingInterval |-> FALSE,
     currentBackoff |-> Min(backoff * 2, MAX_BACKOFF),
     error |-> RateLimitError(backoff),
     backoffTimeout |-> TRUE,
     timeoutDelay |-> Min(backoff * 2, MAX_BACKOFF),
     strayTimeouts |-> IF armed THEN stray + 1 ELSE stray]

\* handleRateLimit(), given currentBackoff, whether backoffTimeout holds a
\* pending handle and the number of stray timeouts: the interval is cleared,
\* the delay doubled up to MAX_BACKOFF, an error naming the new delay passed
\* to notifyAllError, and a new timeout of the new delay stored over the old
\* handle, which is not cleared.
HandleRateLimit(backoff, armed, stray) ==
    [pollingInterval |-> FALSE,
     currentBackoff |-> Min(backoff * 2, MAX_BACKOFF),
     error |-> RateLimitError(Min(backoff * 2, MAX_BACKOFF)),
     backoffTimeout |-> TRUE,
     timeoutDelay |-> Min(backoff * 2, MAX_BACKOFF),
     strayTimeouts |-> IF armed THEN stray + 1 ELSE stray]

\* A poll cycle suspended at `await Promise.all(promises)` of its first batch:
\* symbols is the snapshot of the keys, i the loop variable; history:
\* rateLimited, whether a fetch of the cycle has failed with a rate-limit
\* error, failed, whether one has failed with another error, fetched, the
\* batches whose requests were issued, and waited, the delay awaited before
\* each of them.
NewCycle(symbols) ==
    [symbols |-> symbols, i |-> 0, pc |-> "fetch", rateLimited |-> FALSE,
     failed |-> FALSE,
     fetched |-> << Slice(symbols, 0, BATCH_SIZE) >>, waited |-> << 0 >>]

\* Mutant of FetchPrices: the backoff is reset to 0, not to MIN_BACKOFF.
FetchPrices_ResetsToZero(polling, backoff, cyc, keys) ==
    IF polling
    THEN [isPolling |-> TRUE, currentBackoff |-> backoff, cycles |-> cyc]
    ELSE IF Len(keys) = 0
    THEN [isPolling |-> FALSE, currentBackoff |-> backoff, cycles |-> cyc]
    ELSE [isPolling |-> TRUE, currentBackoff |-> 0,
          cycles |-> Append(cyc, NewCycle(keys))]

\* Mutant of FetchPrices: no check of the in-flight flag.
FetchPrices_NoGuard(polling, backoff, cyc, keys) ==
    IF Len(keys) = 0
    THEN [isPolling |-> FALSE, currentBackoff |-> backoff, cycles |-> cyc]
    ELSE [isPolling |-> TRUE, currentBackoff |-> MIN_BACKOFF,
          cycles |-> Append(cyc, NewCycle(keys))]

\* fetchPrices() up to its first await, called with the keys of subscribers
\* as they are at the call: returns at once if a cycle is flagged in flight or
\* there is no key; else resets currentBackoff and issues the first batch.
FetchPrices(polling, backoff, cyc, keys) ==
    IF polling
    THEN [isPolling |-> TRUE, currentBackoff |-> backoff, cycles |-> cyc]
    ELSE IF Len(keys) = 0
    THEN [isPolling |-> FALSE, currentBackoff |-> backoff, cycles |-> cyc]
    ELSE [isPolling |-> TRUE, currentBackoff |-> MIN_BACKOFF,
          cycles |-> Append(cyc, NewCycle(keys))]

\* The symbols of the batch a cycle is fetching: symbols.slice(i, i + 3).
BatchSymbols(c) ==
    { c.symbols[n] : n \in (c.i + 1) .. Min(c.i + BATCH_SIZE, Len(c.symbols)) }

\* Whether some symbol of a batch failed with an error whose message
\* contains 'Rate limit exceeded'.
HasRateLimit(outcome) == \E s \in DOMAIN outcome : outcome[s] = "rateLimit"

\* History: the number of cycles in a row, up to 3, that finished having had
\* a rate-limit failure; a cycle that finishes without one ends the streak.
StreakAfter(rateLimited) == IF rateLimited THEN Min(rlStreak + 1, 3) ELSE 0

\* ---------------------------------------------------------------- registry

\* Mutant of RemoveCallback: the key is kept when its set becomes empty.
RemoveCallback_KeepsKey(symbol, callback) ==
    IF symbol \notin DOMAIN subscribers THEN subscribers
    ELSE MapSet(subscribers, symbol, subscribers[symbol] \ {callback})

\* unsubscribe, lines 190-198: the callback is deleted from the symbol's set,
\* and the key with it when the set becomes empty.
RemoveCallback(symbol, callback) ==
    IF symbol \notin DOMAIN subscribers THEN subscribers
    ELSE IF subscribers[symbol] \ {callback} = {} THEN MapDelete(subscribers, symbol)
    ELSE MapSet(subscribers, symbol, subscribers[symbol] \ {callback})

\* unsubscribe, lines 191 and 200-205: only when an errorHandler is passed
\* is the symbol's handler set touched.
RemoveHandler(symbol, errorHandler) ==
    IF errorHandler = None \/ symbol \notin DOMAIN errorHandlers THEN errorHandlers
    ELSE IF errorHandlers[symbol] \ {errorHandler} = {} THEN MapDelete(errorHandlers, symbol)
    ELSE MapSet(errorHandlers, symbol, errorHandlers[symbol] \ {errorHandler})

\* ------------------------------------------------------------ notification

\* The notify methods as the bag of callback invocations they make. throwers
\* are the callbacks that throw when invoked: each call sits in its own
\* try/catch (lines 103-107, 116-120), so a throw is logged and the forEach
\* goes on.

\* Mutant of NotifySubscribers: the callbacks of every key are called.
NotifySubscribers_EveryKey(symbol, data, throwers) ==
    SetToBag({ Invocation("subscribers", x[1], x[2], data) :
                   x \in { y \in (DOMAIN subscribers) \X PriceCallbacks :
                               y[2] \in subscribers[y[1]] } })

\* Mutant of NotifySubscribers: the callbacks called are not read from the
\* registry at the call, so one that was unsubscribed since is still called.
NotifySubscribers_Stale(symbol, data, throwers) ==
    SetToBag({ Invocation("subscribers", symbol, cb, data) : cb \in PriceCallbacks })

\* Mutant of NotifySubscribers: no try/catch around the call, so the forEach
\* ends at a callback that throws.
NotifySubscribers_NoTryCatch(symbol, data, throwers) ==
    IF symbol \in DOMAIN subscribers
    THEN SetToBag({ Invocation("subscribers", symbol, cb, data) :
                      cb \in IF subscribers[symbol] \cap throwers = {}
                             THEN subscribers[symbol]
                             ELSE subscribers[symbol] \cap throwers })
    ELSE EmptyBag

\* notifySubscribers(symbol, data): every callback of the symbol's set as it
\* is at the call; nothing if the key is gone.
NotifySubscribers(symbol, data, throwers) ==
    IF symbol \in DOMAIN subscribers
    THEN SetToBag({ Invocation("subscribers", symbol, cb, data) : cb \in subscribers[symbol] })
    ELSE EmptyBag

\* notifyError(symbol, error): every handler of the symbol's set as it is at
\* the call; nothing if the key is gone.
NotifyError(symbol, error, throwers) ==
    IF symbol \in DOMAIN errorHandlers
    THEN SetToBag({ Invocation("errorHandlers", symbol, cb, error) : cb \in errorHandlers[symbol] })
    ELSE EmptyBag

\* notifyAllError(error): notifyError for every key of errorHandlers.
NotifyAllError(error, throwers) ==
    SumBags([symbol \in DOMAIN errorHandlers |-> NotifyError(symbol, error, throwers)])

\* results.forEach of lines 63-76 for the batch of cycle c.
RouteResults(c, outcome, throwers) ==
    SumBags([symbol \in BatchSymbols(c) |->
                IF outcome[symbol] # "ok"
                THEN NotifyError(symbol, FetchError(symbol, outcome[symbol]), throwers)
                ELSE NotifySubscribers(symbol, PriceData(symbol), throwers)])

\* ------------------------------------------------------ AnomalyDetector

\* The numbers of the detector, kept exact: [num, den, surd] is the rational
\* num / den in lowest terms, or with surd the square root of |num| / den
\* with the sign of num (what Math.sqrt gives, and what a division by it
\* gives). Rounding of doubles is left out.
RECURSIVE GCD(_, _)
GCD(a, b) == IF b = 0 THEN a ELSE GCD(b, a % b)

Abs(n) == IF n < 0 THEN -n ELSE n
Sign(n) == IF n < 0 THEN -1 ELSE IF n = 0 THEN 0 ELSE 1

Num(n, d) ==
    LET g == GCD(Abs(n), Abs(d))
    IN  [num |-> Sign(d) * (n \div g), den |-> Abs(d) \div g, surd |-> FALSE]

IsZero(x) == x.num = 0
Add(x, y) == Num(x.num * y.den + y.num * x.den, x.den * y.den)
Sub(x, y) == Num(x.num * y.den - y.num * x.den, x.den * y.den)
Mul(x, y) == Num(x.num * y.num, x.den * y.den)
\* x * x, the square of either kind of number
Square(x) == IF x.surd THEN Num(Abs(x.num), x.den) ELSE Mul(x, x)
\* x / y for y # 0
Div(x, y) ==
    IF ~x.surd /\ ~y.surd THEN Num(x.num * y.den, x.den * y.num)
    ELSE LET q == Num(Square(x).num * Square(y).den, Square(x).den * Square(y).num)
         IN  [num |-> Sign(x.num) * Sign(y.num) * q.num, den |-> q.den, surd |-> TRUE]
MathAbs(x) == [x EXCEPT !.num = Abs(x.num)]
MathSqrt(x) == [x EXCEPT !.surd = TRUE]
\* x < y; numbers of either kind are compared by their signed squares
Lt(x, y) ==
    IF ~x.surd /\ ~y.surd THEN x.num * y.den < y.num * x.den
    ELSE Sign(x.num) * Square(x).num * Square(y).den
            < Sign(y.num) * Square(y).num * Square(x).den

\* data.reduce((a, b) => a + b, 0)
RECURSIVE Sum(_)
Sum(data) == IF data = << >> THEN Num(0, 1) ELSE Add(Head(data), Sum(Tail(data)))

\* [...data].sort((a, b) => a - b)
RECURSIVE Sort(_)
Sort(data) ==
    IF Len(data) <= 1 THEN data
    ELSE LET rest == Sort(Tail(data))
             k == Cardinality({ i \in 1 .. Len(rest) : Lt(rest[i], Head(data)) })
         IN  SubSeq(rest, 1, k) \o << Head(data) >> \o SubSeq(rest, k + 1, Len(rest))

\* Mutant of calculateMedian: the upper of the two middle elements of an
\* even length, not their average.
calculateMedian_UpperMiddle(data) ==
    IF Len(data) = 0 THEN Num(0, 1) ELSE Sort(data)[(Len(data) \div 2) + 1]

\* calculateMedian (lines 84-95); sortedData[mid] is Sort(data)[mid + 1]
calculateMedian(data) ==
    LET sortedData == Sort(data)
        mid == Len(data) \div 2
    IN  IF Len(data) = 0 THEN Num(0, 1)
        ELSE IF Len(data) % 2 = 0
        THEN Div(Add(sortedData[mid], sortedData[mid + 1]), Num(2, 1))
        ELSE sortedData[mid + 1]

\* Mutant of Variance: the sample variance, divided by length - 1.
Variance_Sample(data, mean) ==
    Div(Sum([k \in 1 .. Len(data) |-> Square(Sub(data[k], mean))]),
        Num(Len(data) - 1, 1))

\* data.reduce((a, b) => a + Math.pow(b - mean, 2), 0) / data.length
Variance(data, mean) ==
    Div(Sum([k \in 1 .. Len(data) |-> Square(Sub(data[k], mean))]),
        Num(Len(data), 1))

\* Mutant of Quartile: the index is rounded up, not down.
Quartile_RoundedUp(sortedHistorical, n) ==
    sortedHistorical[Min(((Len(sortedHistorical) * n + 3) \div 4) + 1,
                         Len(sortedHistorical))]

\* sortedHistorical[Math.floor(sortedHistorical.length * q)] for q = n / 4
Quartile(sortedHistorical, n) ==
    sortedHistorical[((Len(sortedHistorical) * n) \div 4) + 1]

\* detectAnomaliesZScore (lines 98-113)
detectAnomaliesZScore(historicalData, livePrice) ==
    LET mean == Div(Sum(historicalData), Num(Len(historicalData), 1))
        std == MathSqrt(Variance(historicalData, mean))
    IN  [mean |-> mean,
         std |-> std,
         maxZscore |-> IF IsZero(std) THEN Num(0, 1)
                       ELSE MathAbs(Div(Sub(livePrice, mean), std)),
         threshold |-> Num(2, 1),
         volatility |-> IF IsZero(std) THEN Num(0, 1) ELSE Div(std, mean)]

\* detectAnomaliesMAD (lines 116-139); madScalingFactor is 1.4826
detectAnomaliesMAD(historicalData, livePrice) ==
    LET historicalMean == Div(Sum(historicalData), Num(Len(historicalData), 1))
        historicalMedian == calculateMedian(historicalData)
        absoluteDeviationsFromMedian ==
            [k \in 1 .. Len(historicalData) |->
                MathAbs(Sub(historicalData[k], historicalMedian))]
        rawMad == calculateMedian(absoluteDeviationsFromMedian)
        scaledMadSigma == Mul(rawMad, Num(7413, 5000))
    IN  [mean |-> historicalMean,
         std |-> scaledMadSigma,
         maxZscore |-> IF IsZero(scaledMadSigma) THEN Num(0, 1)
                       ELSE Div(MathAbs(Sub(livePrice, historicalMean)), scaledMadSigma),
         threshold |-> Mul(Num(3, 1), scaledMadSigma),
         volatility |-> IF IsZero(scaledMadSigma) THEN Num(0, 1)
                        ELSE Div(scaledMadSigma, historicalMean)]

\* detectAnomaliesIQR (lines 146-173)
detectAnomaliesIQR(historicalData, livePrice) ==
    LET historicalMean == Div(Sum(historicalData), Num(Len(historicalData), 1))
        sortedHistorical == Sort(historicalData)
        q1 == Quartile(sortedHistorical, 1)
        q3 == Quartile(sortedHistorical, 3)
        rawIQR == Sub(q3, q1)
        historicalStandardDeviation == MathSqrt(Variance(historicalData, historicalMean))
    IN  [mean |-> historicalMean,
         std |-> historicalStandardDeviation,
         maxZscore |-> IF IsZero(rawIQR) THEN Num(0, 1)
                       ELSE Div(MathAbs(Sub(livePrice, historicalMean)), rawIQR),
         threshold |-> Mul(Num(3, 2), rawIQR),
         volatility |-> IF IsZero(historicalStandardDeviation) THEN Num(0, 1)
                        ELSE Div(historicalStandardDeviation, historicalMean)]

\* The verdict of the z-score branches of the switch (lines 39-46, 70-77).
ZScoreVerdict(calculatedStats, live) ==
    IF IsZero(calculatedStats.std) THEN FALSE
    ELSE Lt(calculatedStats.threshold,
            MathAbs(Div(Sub(live, calculatedStats.mean), calculatedStats.std)))

\* The verdict of the iqr branch (lines 56-67): false when the std field,
\* the standard deviation of the history, is 0, else the bounds test.
IQRVerdict(calculatedStats, historicalPriceValues, live) ==
    LET sortedHistorical == Sort(historicalPriceValues)
        lowerBound == Sub(Quartile(sortedHistorical, 1), calculatedStats.threshold)
        upperBound == Add(Quartile(sortedHistorical, 3), calculatedStats.threshold)
    IN  IF IsZero(calculatedStats.std) THEN FALSE
        ELSE Lt(live, lowerBound) \/ Lt(upperBound, live)

\* Mutant of Evaluate: the default branch of the switch is that of mad.
Evaluate_DefaultMad(historicalPriceValues, live, method) ==
    CASE method = "zscore" ->
           LET s == detectAnomaliesZScore(historicalPriceValues, live)
           IN  [stats |-> s, verdict |-> ZScoreVerdict(s, live)]
      [] method = "iqr" ->
           LET s == detectAnomaliesIQR(historicalPriceValues, live)
           IN  [stats |-> s, verdict |-> IQRVerdict(s, historicalPriceValues, live)]
      [] OTHER ->
           LET s == detectAnomaliesMAD(historicalPriceValues, live)
           IN  [stats |-> s, verdict |-> Lt(Num(3, 1), s.maxZscore)]

\* The switch of the effect (lines 37-78): calculatedStats and
\* isCurrentPriceAnomalyBasedOnMethod. The default branch (lines 69-77)
\* repeats the code of case 'zscore' (lines 38-46).
Evaluate(historicalPriceValues, live, method) ==
    CASE method = "zscore" ->
           LET s == detectAnomaliesZScore(historicalPriceValues, live)
           IN  [stats |-> s, verdict |-> ZScoreVerdict(s, live)]
      [] method = "mad" ->
           LET s == detectAnomaliesMAD(historicalPriceValues, live)
           IN  [stats |-> s, verdict |-> Lt(Num(3, 1), s.maxZscore)]
      [] method = "iqr" ->
           LET s == detectAnomaliesIQR(historicalPriceValues, live)
           IN  [stats |-> s, verdict |-> IQRVerdict(s, historicalPriceValues, live)]
      [] OTHER ->
           LET s == detectAnomaliesZScore(historicalPriceValues, live)
           IN  [stats |-> s, verdict |-> ZScoreVerdict(s, live)]

\* Mutant of TooShort: only an empty history is skipped.
TooShort_Empty(historicalPricesUSD) == Len(historicalPricesUSD) < 1

\* historicalPricesUSD.length < 2 (line 31)
TooShort(historicalPricesUSD) == Len(historicalPricesUSD) < 2

\* The props the detector is given: histories of up to MaxHistory prices, a
\* live price in steps of a half, and a method, which the type allows to be
\* one of three but the switch takes as any string.
Prices == { Num(p, 1) : p \in {1, 2, 3} }
Histories == UNION { [1 .. n -> Prices] : n \in 0 .. MaxHistory }
LivePrices == { Num(k, 2) : k \in 0 .. 2 * MaxLive }
Methods == {"zscore", "mad", "iqr"}
MethodStrings == Methods \cup {"other"}

\* No detector is mounted.
Unmounted ==
    [historicalPricesUSD |-> << >>, currentLivePriceUSD |-> Num(0, 1),
     method |-> "zscore", stats |-> << >>, onAnomalyDetected |-> << >>,
     effectPending |-> FALSE, evaluations |-> 0]

\* The detector after its first render: stats is null (<< >>) and the effect
\* is due.
Mounted(historicalPricesUSD, currentLivePriceUSD, method) ==
    [historicalPricesUSD |-> historicalPricesUSD,
     currentLivePriceUSD |-> currentLivePriceUSD,
     method |-> method, stats |-> << >>, onAnomalyDetected |-> << >>,
     effectPending |-> TRUE, evaluations |-> 0]

\* ---------------------------------------------------------- CryptoPrice

\* The value of `error` when there is none.
NoError == "null"

\* The component at its first render (lines 307-316), before its effects have
\* run: rendered holds the deps the effects last ran with (<< >>: none yet),
\* loads the calls of loadData suspended at `await Promise.all`, polls the
\* pending 60 s timeouts, retries the number of pending retry timeouts.
\* priceData is 0 for null and k for the object the k-th successful load
\* stored: every object literal is a new reference. History: calls counts the
\* calls of loadData, lastCall says who called it in the last step,
\* succeeded and failed count the loads that ended.
FirstRender ==
    [mounted |-> TRUE, loading |-> TRUE, error |-> NoError, priceData |-> 0,
     isInitialLoad |-> TRUE, loadAttempt |-> 0, expanded |-> FALSE,
     rendered |-> << >>, loads |-> << >>, polls |-> << >>, retries |-> 0,
     calls |-> 0, lastCall |-> "none", succeeded |-> 0, failed |-> 0]

\* No CryptoPrice component is rendered.
NotRendered == [FirstRender EXCEPT !.mounted = FALSE]

\* The loadData of a render (useCallback, lines 326-383): a new function
\* whenever loadAttempt, priceData or isInitialLoad differ from the render
\* before (baseAsset and getCoinId never change), closed over their values.
LoadDataOf(c) ==
    [loadAttempt |-> c.loadAttempt, priceData |-> c.priceData,
     isInitialLoad |-> c.isInitialLoad]

\* The deps of the two effects at a render: [loadData, loadAttempt] (line
\* 389) and [loadData, error] (line 412).
DepsOf(c) ==
    [loadData |-> LoadDataOf(c), loadAttempt |-> c.loadAttempt, error |-> c.error]

\* loadData() up to its await (lines 327-340), called by the load effect or
\* by a poll timeout: setLoading(true) on the initial load, setError(null),
\* and the two requests are issued. poll says whether the caller schedules a
\* poll when the call has ended ("current": the timeout callback of the
\* polling effect in force; "stale": that of one cleaned up; "none").
CallLoadData(c, loadData, by, poll) ==
    [c EXCEPT !.loading = IF loadData.isInitialLoad THEN TRUE ELSE @,
              !.error = NoError,
              !.loads = Append(@, [loadData |-> loadData, poll |-> poll]),
              !.calls = @ + 1,
              !.lastCall = by]

\* schedulePoll() (lines 396-401) run by the timeout callback after its
\* `await loadData()`: a new 60 s timeout, which the cleanup of the effect
\* clears only if the effect is still the one in force.
SchedulePoll(polls, load) ==
    IF load.poll = "none" THEN polls
    ELSE Append(polls, [loadData |-> load.loadData, current |-> load.poll = "current"])

\* The cleanup of the polling effect (lines 407-411): clearTimeout of the
\* timeout it holds; a timeout callback of it that is awaiting loadData goes
\* on and will schedule a poll nothing clears.
PollCleanup(c) ==
    [c EXCEPT !.polls = SelectSeq(c.polls, LAMBDA t : ~t.current),
              !.loads = [k \in 1 .. Len(c.loads) |->
                            IF c.loads[k].poll = "current"
                            THEN [loadData |-> c.loads[k].loadData, poll |-> "stale"]
                            ELSE c.loads[k]]]

\* ------------------------------------------------------------------ actions

Init ==
    /\ subscribers = Fields.subscribers
    /\ keyOrder = << >>
    /\ errorHandlers = Fields.errorHandlers
    \* the constructor calls startPolling()
    /\ pollingInterval = StartPolling.pollingInterval
    /\ backoffTimeout = StartPolling.backoffTimeout
    /\ strayTimeouts = 0
    /\ currentBackoff = Fields.currentBackoff
    /\ isPolling = Fields.isPolling
    /\ cycles = << >>
    /\ rlStreak = 0
    /\ last = Other
    /\ effects = NoEffects
    /\ api = NoCall
    /\ detector = Unmounted
    /\ cryptoPrice = NotRendered

\* Mutant of Subscribe: fetchPrices is called whether or not the symbol is
\* new.
Subscribe_AlwaysFetches(symbol, callback, errorHandler) ==
    LET isNew == symbol \notin DOMAIN subscribers
        keys == IF isNew THEN Append(keyOrder, symbol) ELSE keyOrder
        subs0 == IF isNew THEN MapSet(subscribers, symbol, {}) ELSE subscribers
        errs0 == IF isNew THEN MapSet(errorHandlers, symbol, {}) ELSE errorHandlers
        f == FetchPrices(isPolling, currentBackoff, cycles, keys)
        fresh == DOMAIN subscribers = {} /\ DOMAIN errorHandlers = {}
    IN  /\ subscribers' = MapSet(subs0, symbol, subs0[symbol] \cup {callback})
        /\ keyOrder' = keys
        /\ errorHandlers' =
              IF errorHandler # None /\ symbol \in DOMAIN errs0
              THEN MapSet(errs0, symbol, errs0[symbol] \cup {errorHandler})
              ELSE errs0
        /\ isPolling' = f.isPolling
        /\ currentBackoff' = f.currentBackoff
        /\ cycles' = f.cycles
        /\ last' = [op |-> "subscribe", fresh |-> fresh,
                    args |-> IF fresh THEN <<symbol, callback, errorHandler>> ELSE << >>]
        /\ UNCHANGED <<pollingInterval, backoffTimeout, strayTimeouts>>

\* subscribe(symbol, callback, errorHandler?)
Subscribe(symbol, callback, errorHandler) ==
    LET isNew == symbol \notin DOMAIN subscribers
        keys == IF isNew THEN Append(keyOrder, symbol) ELSE keyOrder
        subs0 == IF isNew THEN MapSet(subscribers, symbol, {}) ELSE subscribers
        errs0 == IF isNew THEN MapSet(errorHandlers, symbol, {}) ELSE errorHandlers
        f == IF isNew
             THEN FetchPrices(isPolling, currentBackoff, cycles, keys)
             ELSE [isPolling |-> isPolling, currentBackoff |-> currentBackoff,
                   cycles |-> cycles]
        fresh == DOMAIN subscribers = {} /\ DOMAIN errorHandlers = {}
    IN  /\ subscribers' = MapSet(subs0, symbol, subs0[symbol] \cup {callback})
        /\ keyOrder' = keys
        /\ errorHandlers' =
              IF errorHandler # None /\ symbol \in DOMAIN errs0
              THEN MapSet(errs0, symbol, errs0[symbol] \cup {errorHandler})
              ELSE errs0
        /\ isPolling' = f.isPolling
        /\ currentBackoff' = f.currentBackoff
        /\ cycles' = f.cycles
        /\ last' = [op |-> "subscribe", fresh |-> fresh,
                    args |-> IF fresh THEN <<symbol, callback, errorHandler>> ELSE << >>]
        /\ UNCHANGED <<pollingInterval, backoffTimeout, strayTimeouts>>

\* unsubscribe(symbol, callback, errorHandler?)
Unsubscribe(symbol, callback, errorHandler) ==
    LET subs1 == RemoveCallback(symbol, callback)
        empty == DOMAIN subs1 = {}
    IN  /\ subscribers' = subs1
        /\ keyOrder' = IF symbol \in DOMAIN subs1 THEN keyOrder ELSE SeqRemove(keyOrder, symbol)
        /\ errorHandlers' = RemoveHandler(symbol, errorHandler)
        /\ pollingInterval' = IF empty THEN Cleanup.pollingInterval ELSE pollingInterval
        /\ backoffTimeout' = IF empty THEN Cleanup.backoffTimeout ELSE backoffTimeout
        /\ isPolling' = IF empty THEN Cleanup.isPolling ELSE isPolling
        /\ last' = [op |-> "unsubscribe",
                    deleted |-> symbol \in DOMAIN subscribers /\ symbol \notin DOMAIN subs1,
                    roundTrip |-> /\ last.op = "subscribe"
                                  /\ last.fresh
                                  /\ last.args = <<symbol, callback, errorHandler>>]
        /\ UNCHANGED <<strayTimeouts, currentBackoff, cycles>>

\* disconnect()
Disconnect ==
    /\ pollingInterval' = Cleanup.pollingInterval
    /\ backoffTimeout' = Cleanup.backoffTimeout
    /\ isPolling' = Cleanup.isPolling
    /\ subscribers' = EmptyMap
    /\ keyOrder' = << >>
    /\ errorHandlers' = EmptyMap
    /\ last' = Other
    /\ UNCHANGED <<strayTimeouts, currentBackoff, cycles>>

\* The interval callback of startPolling (lines 159-161): fetchPrices().
Tick ==
    LET f == FetchPrices(isPolling, currentBackoff, cycles, keyOrder)
    IN  /\ pollingInterval
        /\ isPolling' = f.isPolling
        /\ currentBackoff' = f.currentBackoff
        /\ cycles' = f.cycles
        /\ last' = [op |-> "tick", inFlight |-> Len(cycles), started |-> f.cycles # cycles]
        /\ UNCHANGED <<subscribers, keyOrder, errorHandlers, pollingInterval,
                       backoffTimeout, strayTimeouts>>

\* Mutant of BatchResults: the cycle that finishes leaves isPolling as it is.
BatchResults_KeepsFlag(k, outcome) ==
    LET c == cycles[k]
        rateLimited == c.rateLimited \/ HasRateLimit(outcome)
        failed == c.failed \/ \E s \in DOMAIN outcome : outcome[s] = "error"
        more == c.i + BATCH_SIZE < Len(c.symbols)
    IN  /\ c.pc = "fetch"
        /\ cycles' = IF more
                     THEN [cycles EXCEPT ![k] = [c EXCEPT !.i = c.i + BATCH_SIZE,
                                                          !.pc = "delay",
                                                          !.rateLimited = rateLimited,
                                                          !.failed = failed]]
                     ELSE RemoveAt(cycles, k)
        /\ isPolling' = isPolling
        /\ last' = [op |-> "results", more |-> more,
                    rateLimit |-> HasRateLimit(outcome), cycleRateLimit |-> rateLimited]
        /\ UNCHANGED <<subscribers, keyOrder, errorHandlers, pollingInterval,
                       backoffTimeout, strayTimeouts, currentBackoff>>

\* Cycle k resumes after `await Promise.all(promises)` (line 61) with the
\* outcome of each symbol of its batch; every failure was caught per symbol
\* (lines 53-58), so each result is routed to notifyError or notifySubscribers
\* (lines 63-76) and the loop goes on: to the delay before the next batch, or
\* out of the loop and through `finally`.
BatchResults(k, outcome) ==
    LET c == cycles[k]
        rateLimited == c.rateLimited \/ HasRateLimit(outcome)
        failed == c.failed \/ \E s \in DOMAIN outcome : outcome[s] = "error"
        more == c.i + BATCH_SIZE < Len(c.symbols)
    IN  /\ c.pc = "fetch"
        /\ cycles' = IF more
                     THEN [cycles EXCEPT ![k] = [c EXCEPT !.i = c.i + BATCH_SIZE,
                                                          !.pc = "delay",
                                                          !.rateLimited = rateLimited,
                                                          !.failed = failed]]
                     ELSE RemoveAt(cycles, k)
        /\ isPolling' = IF more THEN isPolling ELSE FALSE
        /\ last' = [op |-> "results", more |-> more,
                    rateLimit |-> HasRateLimit(outcome), cycleRateLimit |-> rateLimited]
        /\ UNCHANGED <<subscribers, keyOrder, errorHandlers, pollingInterval,
                       backoffTimeout, strayTimeouts, currentBackoff>>

\* Cycle k resumes after the 2 s delay before a later batch (lines 48-50) and
\* issues the batch's requests.
DelayElapsed(k) ==
    /\ cycles[k].pc = "delay"
    /\ cycles' = [cycles EXCEPT
                    ![k].pc = "fetch",
                    ![k].fetched = Append(@, Slice(cycles[k].symbols, cycles[k].i,
                                                   cycles[k].i + BATCH_SIZE)),
                    ![k].waited = Append(@, 2000)]
    /\ last' = Other
    /\ UNCHANGED <<subscribers, keyOrder, errorHandlers, pollingInterval,
                   backoffTimeout, strayTimeouts, currentBackoff, isPolling>>

\* Cycle k resumes from `await Promise.all(promises)` with an exception that
\* reaches the batch's catch clause (lines 77-86). If its message contains
\* 'Rate limit exceeded': handleRateLimit(), break, and `finally`. Otherwise
\* notifyError for each symbol of the batch, and the loop goes on.
BatchRaises(k, kind) ==
    LET c == cycles[k]
        h == HandleRateLimit(currentBackoff, backoffTimeout, strayTimeouts)
        more == kind # "rateLimit" /\ c.i + BATCH_SIZE < Len(c.symbols)
    IN  /\ c.pc = "fetch"
        /\ pollingInterval' = IF kind = "rateLimit" THEN h.pollingInterval ELSE pollingInterval
        /\ backoffTimeout' = IF kind = "rateLimit" THEN h.backoffTimeout ELSE backoffTimeout
        /\ strayTimeouts' = IF kind = "rateLimit" THEN h.strayTimeouts ELSE strayTimeouts
        /\ currentBackoff' = IF kind = "rateLimit" THEN h.currentBackoff ELSE currentBackoff
        /\ cycles' = IF more
                     THEN [cycles EXCEPT ![k] = [c EXCEPT !.i = c.i + BATCH_SIZE,
                                                          !.pc = "delay"]]
                     ELSE RemoveAt(cycles, k)
        /\ isPolling' = IF more THEN isPolling ELSE FALSE
        /\ last' = Other
        /\ UNCHANGED <<subscribers, keyOrder, errorHandlers>>

\* The timeout callback of handleRateLimit (lines 145-148): startPolling(),
\* then fetchPrices(). The timeout that fires is the one the field holds, or
\* (stray) an older one whose handle was overwritten; startPolling clears the
\* one the field holds.
BackoffFires(stray) ==
    LET f == FetchPrices(isPolling, currentBackoff, cycles, keyOrder)
    IN  /\ IF stray THEN strayTimeouts > 0 ELSE backoffTimeout
        /\ strayTimeouts' = IF stray THEN strayTimeouts - 1 ELSE strayTimeouts
        /\ pollingInterval' = StartPolling.pollingInterval
        /\ backoffTimeout' = StartPolling.backoffTimeout
        /\ isPolling' = f.isPolling
        /\ currentBackoff' = f.currentBackoff
        /\ cycles' = f.cycles
        /\ last' = [op |-> "backoffFired", stray |-> stray, started |-> f.cycles # cycles]
        /\ UNCHANGED <<subscribers, keyOrder, errorHandlers>>

\* coingeckoApi is called.
ApiCall ==
    /\ api.status # "running"
    /\ api' = NewCall
    /\ UNCHANGED <<feed, detector, cryptoPrice>>

\* The request of the running call is answered.
ApiAttempt ==
    /\ api.status = "running"
    /\ \E r \in Rejections \cup Responses : api' = Attempt(api, r)
    /\ UNCHANGED <<feed, detector, cryptoPrice>>

\* The request of the call of the quote that the one cycle in flight awaits
\* is answered.
QuoteAttempt ==
    /\ Len(cycles) = 1
    /\ cycles[1].pc = "fetch"
    /\ api.status = "running"
    /\ \E r \in QuoteResponses : api' = Attempt(api, r)
    /\ UNCHANGED <<feed, detector, cryptoPrice>>

\* The call of the quote has ended and the cycle resumes after
\* `await Promise.all(promises)` with what the promise resolved to.
QuoteResult ==
    /\ Len(cycles) = 1
    /\ api.status \in {"returned", "threw"}
    /\ BatchResults(1, [s \in BatchSymbols(cycles[1]) |-> GetCurrentPrice(api, s)])
    /\ api' = [api EXCEPT !.status = "delivered"]

\* The effect of the detector runs (lines 30-81): nothing for a history of
\* fewer than 2 points, else setStats and one call of onAnomalyDetected.
DetectorEffect ==
    LET d == detector
        e == Evaluate(d.historicalPricesUSD, d.currentLivePriceUSD, d.method)
        ran == [d EXCEPT !.effectPending = FALSE, !.evaluations = @ + 1]
    IN  /\ d.effectPending
        /\ detector' = IF TooShort(d.historicalPricesUSD) THEN ran
                        ELSE [ran EXCEPT !.stats = << e.stats >>,
                                         !.onAnomalyDetected = Append(@, e.verdict)]
        /\ UNCHANGED <<feed, api, cryptoPrice>>

\* The user picks another method (setDetectionMethod): the detector is
\* rendered with the new method, and its effect is due again.
MethodPicked ==
    /\ ~detector.effectPending
    /\ detector.evaluations > 0
    /\ detector.evaluations < MaxEvaluations
    /\ \E method \in Methods \ {detector.method} :
          detector' = [detector EXCEPT !.method = method, !.effectPending = TRUE]
    /\ UNCHANGED <<feed, api, cryptoPrice>>

\* React commits a render of CryptoPrice whose deps differ from those the
\* effects last ran with, and runs the effects whose deps changed, in order:
\* the cleanup of the polling effect, the load effect (line 388: loadData()),
\* the polling effect (lines 392-405: schedulePoll() unless `error`, the
\* error of this render).
Commit ==
    LET c == cryptoPrice
        deps == DepsOf(c)
        first == c.rendered = << >>
        loadDue == \/ first
                   \/ c.rendered.loadData # deps.loadData
                   \/ c.rendered.loadAttempt # deps.loadAttempt
        pollDue == \/ first
                   \/ c.rendered.loadData # deps.loadData
                   \/ c.rendered.error # deps.error
        cleaned == IF pollDue THEN PollCleanup(c) ELSE c
        quiet == [cleaned EXCEPT !.lastCall = "none"]
        loaded == IF loadDue THEN CallLoadData(quiet, deps.loadData, "effect", "none")
                  ELSE quiet
        polled == IF pollDue /\ c.error = NoError
                  THEN [loaded EXCEPT !.polls = Append(@, [loadData |-> deps.loadData,
                                                           current |-> TRUE])]
                  ELSE loaded
    IN  /\ c.mounted
        /\ first \/ c.rendered # deps
        /\ loadDue => c.calls < MaxLoads
        /\ cryptoPrice' = [polled EXCEPT !.rendered = deps]
        /\ UNCHANGED <<feed, api, detector>>

\* A call of loadData resumes from `await Promise.all` with both results
\* (lines 342-360): setPriceData of a new object, setPriceHistoryUSD,
\* setError(null), setLastUpdateTime, setIsInitialLoad(false), and `finally`
\* setLoading(false); a timeout callback that awaited it calls schedulePoll.
LoadSucceeds(k) ==
    LET c == cryptoPrice
        load == c.loads[k]
    IN  /\ cryptoPrice' = [c EXCEPT !.priceData = c.succeeded + 1,
                                     !.error = NoError,
                                     !.isInitialLoad = FALSE,
                                     !.loading = FALSE,
                                     !.loads = RemoveAt(c.loads, k),
                                     !.polls = SchedulePoll(c.polls, load),
                                     !.succeeded = @ + 1,
                                     !.lastCall = "none"]
        /\ UNCHANGED <<feed, api, detector>>

\* A call of loadData resumes with a rejection (lines 361-383): setError,
\* setPriceData(null) if the priceData of its render was null, a retry
\* timeout if the loadAttempt of its render is below 2, and `finally`
\* setLoading(false); a timeout callback that awaited it calls schedulePoll.
LoadFails(k) ==
    LET c == cryptoPrice
        load == c.loads[k]
    IN  /\ cryptoPrice' = [c EXCEPT !.error = "Failed to load data",
                                     !.priceData = IF load.loadData.priceData = 0 THEN 0 ELSE @,
                                     !.retries = IF load.loadData.loadAttempt < 2 THEN @ + 1 ELSE @,
                                     !.loading = FALSE,
                                     !.loads = RemoveAt(c.loads, k),
                                     !.polls = SchedulePoll(c.polls, load),
                                     !.failed = @ + 1,
                                     !.lastCall = "none"]
        /\ UNCHANGED <<feed, api, detector>>

\* A retry timeout fires (lines 376-378): setLoadAttempt(prev => prev + 1).
RetryFires ==
    /\ cryptoPrice.retries > 0
    /\ cryptoPrice' = [cryptoPrice EXCEPT !.loadAttempt = @ + 1,
                                          !.retries = @ - 1,
                                          !.lastCall = "none"]
    /\ UNCHANGED <<feed, api, detector>>

\* The 60 s timeout t fires (lines 397-400): its callback calls the loadData
\* of the render that set it and awaits it.
PollFires(t) ==
    LET c == cryptoPrice
        timeout == c.polls[t]
        fired == [c EXCEPT !.polls = RemoveAt(c.polls, t)]
    IN  /\ c.calls < MaxLoads
        /\ cryptoPrice' = CallLoadData(fired, timeout.loadData, "poll",
                                        IF timeout.current THEN "current" ELSE "stale")
        /\ UNCHANGED <<feed, api, detector>>

\* The user expands or collapses the card (setExpanded): a render with the
\* deps of both effects unchanged, so no effect runs.
Toggle ==
    /\ cryptoPrice.mounted
    /\ cryptoPrice.rendered = DepsOf(cryptoPrice)
    /\ cryptoPrice' = [cryptoPrice EXCEPT !.expanded = ~@, !.lastCall = "none"]
    /\ UNCHANGED <<feed, api, detector>>

\* The public calls, with their arguments drawn from a set of calls.
SubscribeCall(calls) == \E a \in calls : Subscribe(a[1], a[2], a[3])
UnsubscribeCall(calls) == \E a \in calls : Unsubscribe(a[1], a[2], a[3])

Results ==
    \E k \in 1 .. Len(cycles) :
        \E outcome \in [BatchSymbols(cycles[k]) -> Outcomes] : BatchResults(k, outcome)

Delay == \E k \in 1 .. Len(cycles) : DelayElapsed(k)

Raises == \E k \in 1 .. Len(cycles), kind \in {"rateLimit", "error"} : BatchRaises(k, kind)

Fires == \E stray \in BOOLEAN : BackoffFires(stray)

\* The steps that call callbacks, with what they did to the outside recorded
\* in effects: the outcome routed, the bag of invocations made, the delay of
\* the timeout set (0: none) and, for a delivery of results, the callbacks
\* that threw.
ResultsObserved ==
    \E k \in 1 .. Len(cycles) :
        \E outcome \in [BatchSymbols(cycles[k]) -> Outcomes], throwers \in ThrowerSets :
            /\ BatchResults(k, outcome)
            /\ effects' = [op |-> "results", outcome |-> outcome, throwers |-> throwers,
                           calls |-> RouteResults(cycles[k], outcome, throwers),
                           timeout |-> 0]

RaisesObserved ==
    \E k \in 1 .. Len(cycles), kind \in {"rateLimit", "error"}, throwers \in ThrowerSets :
        LET h == HandleRateLimit(currentBackoff, backoffTimeout, strayTimeouts)
            batch == BatchSymbols(cycles[k])
        IN  /\ BatchRaises(k, kind)
            /\ effects' =
                  IF kind = "rateLimit"
                  THEN [op |-> "escalation", outcome |-> [s \in batch |-> kind],
                        calls |-> NotifyAllError(h.error, throwers),
                        timeout |-> h.timeoutDelay]
                  ELSE [op |-> "batchError", outcome |-> [s \in batch |-> kind],
                        calls |-> SumBags([s \in batch |->
                                     NotifyError(s, FetchError(None, kind), throwers)]),
                        timeout |-> 0]

\* What bounds a step: at most n cycles in flight and at most MaxStray stray
\* timeouts after it. The history variable rlStreak is kept by Counted only.
Within(n) ==
    /\ Len(cycles') <= n
    /\ strayTimeouts' <= MaxStray
    /\ rlStreak' = rlStreak
    /\ effects' = NoEffects
    /\ api' = api
    /\ detector' = detector
    /\ cryptoPrice' = cryptoPrice

Counted(n) ==
    /\ Len(cycles') <= n
    /\ strayTimeouts' <= MaxStray
    /\ rlStreak' = IF last'.op = "results" /\ ~last'.more
                   THEN StreakAfter(last'.cycleRateLimit)
                   ELSE rlStreak
    /\ effects' = NoEffects
    /\ api' = api
    /\ detector' = detector
    /\ cryptoPrice' = cryptoPrice

\* What bounds a step of the Feed while the call of the quote is followed.
Quoting(n) ==
    /\ Len(cycles') <= n
    /\ strayTimeouts' <= MaxStray
    /\ rlStreak' = rlStreak
    /\ effects' = NoEffects
    /\ detector' = detector
    /\ cryptoPrice' = cryptoPrice

\* A step that starts a cycle calls getCurrentPrice for its batch before it
\* returns (lines 52-54), and the call enters the loop of coingeckoApi.
QuoteIssued == api' = IF Len(cycles') > Len(cycles) THEN NewCall ELSE api

\* What bounds a step whose effects are recorded.
Observed(n) ==
    /\ Len(cycles') <= n
    /\ strayTimeouts' <= MaxStray
    /\ rlStreak' = rlStreak
    /\ api' = api
    /\ detector' = detector
    /\ cryptoPrice' = cryptoPrice

\* The service as the code runs it, under the calls of Calls. No cycle has
\* more than one batch, so none is ever suspended at the inter-batch delay.
\* Every failure of getCurrentPrice is caught per symbol (lines 53-58) and
\* nothing else in the batch body throws, so no step enters the batch's catch
\* clause, handleRateLimit never runs and no backoff timeout ever fires.
Next ==
    \/ SubscribeCall(Calls) /\ Within(MaxCycles)
    \/ UnsubscribeCall(Calls) /\ Within(MaxCycles)
    \/ Disconnect /\ Within(MaxCycles)
    \/ Tick /\ Within(MaxCycles)
    \/ Results /\ Within(MaxCycles)

Spec == Init /\ [][Next]_vars

\* Spec, with the streak of rate-limited cycles counted.
NextStreak ==
    \/ SubscribeCall(Calls) /\ Counted(MaxCycles)
    \/ UnsubscribeCall(Calls) /\ Counted(MaxCycles)
    \/ Disconnect /\ Counted(MaxCycles)
    \/ Tick /\ Counted(MaxCycles)
    \/ Results /\ Counted(MaxCycles)

SpecStreak == Init /\ [][NextStreak]_vars

\* Spec, with the callbacks invoked by each delivery recorded.
NextObs ==
    \/ SubscribeCall(Calls) /\ Within(MaxCycles)
    \/ UnsubscribeCall(Calls) /\ Within(MaxCycles)
    \/ Disconnect /\ Within(MaxCycles)
    \/ Tick /\ Within(MaxCycles)
    \/ ResultsObserved /\ Observed(MaxCycles)

SpecObs == Init /\ [][NextObs]_vars

\* Spec under the calls of BatchCalls: cycles of up to two batches.
NextBatch ==
    \/ SubscribeCall(BatchCalls) /\ Within(MaxBatchCycles)
    \/ UnsubscribeCall(BatchCalls) /\ Within(MaxBatchCycles)
    \/ Disconnect /\ Within(MaxBatchCycles)
    \/ Tick /\ Within(MaxBatchCycles)
    \/ Results /\ Within(MaxBatchCycles)
    \/ Delay /\ Within(MaxBatchCycles)

SpecBatch == Init /\ [][NextBatch]_vars

\* Spec under the calls of CaseCalls. subscribe and unsubscribe use the symbol
\* as it is passed (lines 177-185, 190-209): the service calls no conversion.
NextCase ==
    \/ SubscribeCall(CaseCalls) /\ Within(MaxCycles)
    \/ UnsubscribeCall(CaseCalls) /\ Within(MaxCycles)
    \/ Disconnect /\ Within(MaxCycles)
    \/ Tick /\ Within(MaxCycles)
    \/ Results /\ Within(MaxCycles)

SpecCase == Init /\ [][NextCase]_vars

\* The service with the first n symbols of SymbolList subscribed, each by one
\* callback, and no cycle in flight, as n calls of subscribe and the
\* completion of the cycles they started leave it; the recurring timer ticks
\* and the cycles run, and the first symbol may be unsubscribed.
InitSlice ==
    \E n \in 1 .. MaxSymbols :
        /\ subscribers = [s \in { SymbolList[m] : m \in 1 .. n } |-> {"cb1"}]
        /\ keyOrder = SubSeq(SymbolList, 1, n)
        /\ errorHandlers = [s \in { SymbolList[m] : m \in 1 .. n } |-> {}]
        /\ pollingInterval = StartPolling.pollingInterval
        /\ backoffTimeout = StartPolling.backoffTimeout
        /\ strayTimeouts = 0
        /\ currentBackoff = MIN_BACKOFF
        /\ isPolling = FALSE
        /\ cycles = << >>
        /\ rlStreak = 0
        /\ last = Other
        /\ effects = NoEffects
    /\ api = NoCall
    /\ detector = Unmounted
    /\ cryptoPrice = NotRendered

NextSlice ==
    \/ UnsubscribeCall(SliceCalls) /\ Within(MaxBatchCycles)
    \/ Tick /\ Within(MaxBatchCycles)
    \/ Results /\ Within(MaxBatchCycles)
    \/ Delay /\ Within(MaxBatchCycles)

SpecSlice == InitSlice /\ [][NextSlice]_vars

\* The service with BATCH_SIZE + 1 symbols subscribed, so that a cycle has two
\* batches with the delay between them.
InitLive == InitSlice /\ Len(keyOrder) = BATCH_SIZE + 1

\* The cycle at position k of those in flight resumes from its await: the
\* requests of its batch have completed or failed (line 61), or the delay
\* before its next batch is over (line 49).
Resumes(k) ==
    /\ k <= Len(cycles)
    /\ \/ \E outcome \in [BatchSymbols(cycles[k]) -> Outcomes] : BatchResults(k, outcome)
       \/ DelayElapsed(k)

\* The service as the code runs it, with its scheduling: every request of a
\* cycle in flight completes or fails (coingeckoApi bounds attempts, timeouts
\* and waits) and the 2 s timer of a suspended cycle fires, so each cycle in
\* flight resumes. disconnect and a subscribe after it let a second cycle
\* start while the first is in flight.
NextLive ==
    \/ SubscribeCall(SliceCalls) /\ Within(MaxCycles)
    \/ UnsubscribeCall(SliceCalls) /\ Within(MaxCycles)
    \/ Disconnect /\ Within(MaxCycles)
    \/ Tick /\ Within(MaxCycles)
    \/ Results /\ Within(MaxCycles)
    \/ Delay /\ Within(MaxCycles)

SpecLive ==
    /\ InitLive /\ [][NextLive]_vars
    /\ \A k \in 1 .. MaxCycles : WF_vars(Resumes(k) /\ Within(MaxCycles))

\* The fetch client on its own: calls of coingeckoApi, one at a time, each
\* request answered by any of Rejections and Responses.
NextApi ==
    \/ ApiCall
    \/ ApiAttempt

SpecApi == Init /\ [][NextApi]_vars

\* The service with one symbol subscribed to and the coingeckoApi call of
\* each cycle followed attempt by attempt. Nothing unsubscribes, so the guard
\* of fetchPrices keeps the cycles, and with them the calls, one at a time.
QuoteCalls == {"BTC"} \X {"cb1"} \X (ErrorCallbacks \cup {None})

NextQuote ==
    \/ SubscribeCall(QuoteCalls) /\ Quoting(MaxCycles) /\ QuoteIssued
    \/ Tick /\ Quoting(MaxCycles) /\ QuoteIssued
    \/ QuoteAttempt /\ Quoting(MaxCycles)
    \/ QuoteResult /\ Quoting(MaxCycles)

SpecQuote == Init /\ [][NextQuote]_vars

\* An anomaly detector mounted with any history, live price and method; the
\* service is left alone.
InitDetector ==
    /\ subscribers = Fields.subscribers
    /\ keyOrder = << >>
    /\ errorHandlers = Fields.errorHandlers
    /\ pollingInterval = StartPolling.pollingInterval
    /\ backoffTimeout = StartPolling.backoffTimeout
    /\ strayTimeouts = 0
    /\ currentBackoff = Fields.currentBackoff
    /\ isPolling = Fields.isPolling
    /\ cycles = << >>
    /\ rlStreak = 0
    /\ last = Other
    /\ effects = NoEffects
    /\ api = NoCall
    /\ \E h \in Histories, live \in LivePrices, method \in MethodStrings :
          detector = Mounted(h, live, method)
    /\ cryptoPrice = NotRendered

NextDetector ==
    \/ DetectorEffect
    \/ MethodPicked

SpecDetector == InitDetector /\ [][NextDetector]_vars

\* One CryptoPrice component from its first render on, with its requests
\* succeeding or failing and its timeouts firing.
InitPrice ==
    /\ subscribers = Fields.subscribers
    /\ keyOrder = << >>
    /\ errorHandlers = Fields.errorHandlers
    /\ pollingInterval = StartPolling.pollingInterval
    /\ backoffTimeout = StartPolling.backoffTimeout
    /\ strayTimeouts = 0
    /\ currentBackoff = Fields.currentBackoff
    /\ isPolling = Fields.isPolling
    /\ cycles = << >>
    /\ rlStreak = 0
    /\ last = Other
    /\ effects = NoEffects
    /\ api = NoCall
    /\ detector = Unmounted
    /\ cryptoPrice = FirstRender

NextPrice ==
    \/ Commit
    \/ \E k \in 1 .. Len(cryptoPrice.loads) : LoadSucceeds(k)
    \/ \E k \in 1 .. Len(cryptoPrice.loads) : LoadFails(k)
    \/ RetryFires
    \/ \E t \in 1 .. Len(cryptoPrice.polls) : PollFires(t)
    \/ Toggle

SpecPrice == InitPrice /\ [][NextPrice]_vars

\* Spec with the escalation path added: a batch body may raise into its catch
\* clause, and a backoff timeout may fire. Every behaviour of Spec is one of
\* SpecEsc, so what holds in every state of SpecEsc holds of the code.
NextEsc ==
    \/ SubscribeCall(Calls) /\ Within(MaxCycles)
    \/ UnsubscribeCall(Calls) /\ Within(MaxCycles)
    \/ Disconnect /\ Within(MaxCycles)
    \/ Tick /\ Within(MaxCycles)
    \/ Results /\ Within(MaxCycles)
    \/ Raises /\ Within(MaxCycles)
    \/ Fires /\ Within(MaxCycles)

SpecEsc == Init /\ [][NextEsc]_vars

\* SpecEsc under the calls of TimerCalls, with its scheduling: a pending timeout fires when its delay is
\* over, whatever the state then (strong fairness: a step of Fires is left out
\* only where it would exceed MaxCycles), and a request of a cycle in flight
\* completes or fails (coingeckoApi bounds attempts, timeouts and waits).
NextEscTimers ==
    \/ SubscribeCall(TimerCalls) /\ Within(MaxCycles)
    \/ UnsubscribeCall(TimerCalls) /\ Within(MaxCycles)
    \/ Disconnect /\ Within(MaxCycles)
    \/ Tick /\ Within(MaxCycles)
    \/ Results /\ Within(MaxCycles)
    \/ Raises /\ Within(MaxCycles)
    \/ Fires /\ Within(MaxCycles)

SpecEscFair ==
    /\ Init /\ [][NextEscTimers]_vars
    /\ SF_vars(Fires /\ Within(MaxCycles))
    /\ WF_vars(Results /\ Within(MaxCycles))

\* SpecEsc under the calls of HandlerCalls, with the callbacks invoked and the
\* timeout set by a step into the batch's catch clause recorded.
NextEscObs ==
    \/ SubscribeCall(HandlerCalls) /\ Within(MaxCycles)
    \/ UnsubscribeCall(HandlerCalls) /\ Within(MaxCycles)
    \/ Disconnect /\ Within(MaxCycles)
    \/ Tick /\ Within(MaxCycles)
    \/ Results /\ Within(MaxCycles)
    \/ RaisesObserved /\ Observed(MaxCycles)
    \/ Fires /\ Within(MaxCycles)

SpecEscObs == Init /\ [][NextEscObs]_vars

\* ------------------------------------------------------------------ claims

NoTimerArmed == ~pollingInterval /\ ~backoffTimeout

\* C1: a symbol is a key of subscribers if and only if its callback set is
\* non-empty: no key maps to an empty set after any call has returned, and the
\* keys in insertion order are exactly the keys.
C1_KeyIffNonEmpty ==
    /\ \A s \in DOMAIN subscribers : subscribers[s] # {}
    /\ { keyOrder[n] : n \in 1 .. Len(keyOrder) } = DOMAIN subscribers

\* C1's case: an unsubscribe has just deleted a key while another symbol is
\* still subscribed, with two callbacks.
C1_Witness ==
    /\ last.op = "unsubscribe" /\ last.deleted
    /\ \E s \in DOMAIN subscribers : Cardinality(subscribers[s]) = 2

\* C2: subscribe(symbol, cb, err?) on an empty service immediately followed by
\* unsubscribe with the same arguments leaves no entry for the symbol in
\* subscribers or errorHandlers and no timer armed.
C2_RoundTripLeavesNothing ==
    (last.op = "unsubscribe" /\ last.roundTrip) =>
        /\ DOMAIN subscribers = {}
        /\ DOMAIN errorHandlers = {}
        /\ NoTimerArmed

\* C3: whenever at least one symbol is subscribed, the recurring timer or the
\* backoff timer is armed.
C3_SubscribedImpliesTimer ==
    DOMAIN subscribers # {} => (pollingInterval \/ backoffTimeout)

\* C4: from construction on, whenever no symbol is subscribed no timer is
\* armed.
C4_IdleImpliesNoTimer ==
    DOMAIN subscribers = {} => NoTimerArmed

\* C5: the step that removes the last subscribed symbol leaves no timer
\* armed, and while the registry stays empty no step arms one, whatever the
\* cycles in flight do.
C5_NoTimerWhileIdle ==
    [][ (DOMAIN subscribers' = {} /\ (DOMAIN subscribers # {} \/ NoTimerArmed))
            => NoTimerArmed' ]_vars

\* C5's case: the last symbol was unsubscribed while a cycle was in flight,
\* and the cycle has since delivered its results and finished.
C5_Witness ==
    /\ DOMAIN subscribers = {}
    /\ DOMAIN errorHandlers # {}
    /\ NoTimerArmed
    /\ last.op = "results" /\ ~last.more

\* C6: at most one poll cycle is in flight at any time.
C6_AtMostOneCycle == Len(cycles) <= 1

\* C7: the recurring timer and the backoff timer are never both armed.
C7_TimersExclusive == ~(pollingInterval /\ backoffTimeout)

\* C7's case: handleRateLimit has armed the backoff timer while symbols are
\* subscribed.
C7_Witness ==
    /\ backoffTimeout /\ ~pollingInterval
    /\ DOMAIN subscribers # {}

\* C8: MIN_BACKOFF <= currentBackoff <= MAX_BACKOFF in every state.
C8_BackoffInRange ==
    MIN_BACKOFF <= currentBackoff /\ currentBackoff <= MAX_BACKOFF

\* C8's case: an escalation has raised currentBackoff and armed the backoff
\* timer.
C8_Witness == currentBackoff > MIN_BACKOFF /\ backoffTimeout /\ strayTimeouts > 0

C11_EscalationNotifiesAll ==
    [][ effects'.op = "escalation" =>
          /\ currentBackoff' = Min(2 * currentBackoff, MAX_BACKOFF)
          /\ backoffTimeout'
          /\ effects'.timeout = currentBackoff'
          /\ \A s \in DOMAIN errorHandlers : \A cb \in errorHandlers[s] :
                CopiesIn([map |-> "errorHandlers", key |-> s, cb |-> cb,
                          arg |-> [what |-> "retryIn", symbol |-> None,
                                   delay |-> currentBackoff']],
                         effects'.calls) = 1
          /\ \A x \in BagToSet(effects'.calls) :
                /\ x.map = "errorHandlers"
                /\ x.key \in DOMAIN errorHandlers
                /\ x.cb \in errorHandlers[x.key]
                /\ x.arg.what = "retryIn" ]_vars

\* C11's case: an escalation from a delay above MIN_BACKOFF has notified an
\* error callback registered under a symbol that is not in the failing batch.
C11_Witness ==
    /\ effects.op = "escalation"
    /\ currentBackoff = 240000
    /\ \E x \in BagToSet(effects.calls) : x.key \notin DOMAIN effects.outcome

C13_OneEntryPerSymbol ==
    /\ \A s \in DOMAIN subscribers : s = ToUpperCase(s)
    /\ \A k \in 1 .. Len(cycles) : \A m, n \in 1 .. Len(cycles[k].symbols) :
          ToUpperCase(cycles[k].symbols[m]) = ToUpperCase(cycles[k].symbols[n]) => m = n

\* C14: a step that adds a symbol to the registry starts a fetch cycle whose
\* symbol list contains that symbol, whatever the state it is taken in.
C14_FirstSubscriberFetches ==
    [][ \A s \in Symbols :
          (s \notin DOMAIN subscribers /\ s \in DOMAIN subscribers') =>
              /\ Len(cycles') = Len(cycles) + 1
              /\ \E n \in 1 .. Len(cycles'[Len(cycles')].symbols) :
                    cycles'[Len(cycles')].symbols[n] = s ]_vars

\* C15: a cycle over n symbols fetches the symbols of its snapshot in order,
\* each once, in batches of 3 with a last batch of the remainder, ceil(n/3)
\* batches in all, with no delay before the first batch and 2000 ms before
\* each later one; and whatever the outcome of a batch that is not the last,
\* the cycle goes on to the delay before the next batch.
C15_BatchesOfThree ==
    /\ [](\A k \in 1 .. Len(cycles) :
            LET c == cycles[k]
                n == Len(c.symbols)
                b == Len(c.fetched)
            IN  /\ b >= 1 /\ b <= (n + 2) \div 3
                /\ Flatten(c.fetched) = SubSeq(c.symbols, 1, Len(Flatten(c.fetched)))
                /\ \A j \in 1 .. b - 1 : Len(c.fetched[j]) = 3
                /\ Len(c.fetched[b]) = IF 3 * b <= n THEN 3 ELSE n - 3 * (b - 1)
                /\ c.waited = [j \in 1 .. b |-> IF j = 1 THEN 0 ELSE 2000]
                /\ c.pc = "delay" => (c.i = 3 * b /\ c.i < n)
                /\ c.pc = "fetch" => c.i = 3 * (b - 1)
                /\ (c.pc = "fetch" /\ c.i + 3 >= n) =>
                      (b = (n + 2) \div 3 /\ Flatten(c.fetched) = c.symbols))
    /\ [][ \A k \in 1 .. Len(cycles) :
             (/\ cycles[k].pc = "fetch"
              /\ cycles[k].i + 3 < Len(cycles[k].symbols)
              /\ last'.op = "results"
              /\ (Len(cycles') # Len(cycles) \/ cycles'[k] # cycles[k])) =>
                 (/\ Len(cycles') = Len(cycles)
                  /\ cycles'[k].pc = "delay"
                  /\ cycles'[k].i = cycles[k].i + 3
                  /\ cycles'[k].fetched = cycles[k].fetched) ]_vars

\* C15's case: a cycle over 7 symbols has had a failure that is no rate limit
\* in an earlier batch and is fetching its third batch, of 1 symbol.
C15_Witness ==
    \E k \in 1 .. Len(cycles) :
        /\ Len(cycles[k].symbols) = 7
        /\ cycles[k].failed
        /\ cycles[k].pc = "fetch"
        /\ Len(cycles[k].fetched) = 3
        /\ cycles[k].fetched[3] = << cycles[k].symbols[7] >>

\* C16: the results of a batch are routed per symbol: for a symbol that
\* succeeded, each price callback registered under it at the delivery is
\* called once with its price, and for a symbol that failed, each error
\* callback registered under it is called once with its error; no other
\* call is made.
C16_RoutedPerSymbol ==
    effects.op = "results" =>
        LET prices == { x \in (DOMAIN effects.outcome) \X PriceCallbacks :
                          /\ effects.outcome[x[1]] = "ok"
                          /\ x[1] \in DOMAIN subscribers
                          /\ x[2] \in subscribers[x[1]] }
            errors == { x \in (DOMAIN effects.outcome) \X ErrorCallbacks :
                          /\ effects.outcome[x[1]] # "ok"
                          /\ x[1] \in DOMAIN errorHandlers
                          /\ x[2] \in errorHandlers[x[1]] }
            expected ==
                { [map |-> "subscribers", key |-> x[1], cb |-> x[2],
                   arg |-> [what |-> "price", symbol |-> x[1], delay |-> 0]] : x \in prices }
                \cup
                { [map |-> "errorHandlers", key |-> x[1], cb |-> x[2],
                   arg |-> [what |-> effects.outcome[x[1]], symbol |-> x[1], delay |-> 0]] :
                      x \in errors }
        IN  /\ BagToSet(effects.calls) = expected
            /\ \A x \in expected : CopiesIn(x, effects.calls) = 1

\* C16's case: one batch has delivered a failure of a symbol with two price
\* callbacks and an error callback, and a success of another symbol whose
\* price callback is also registered under the first.
C16_Witness ==
    /\ effects.op = "results"
    /\ DOMAIN effects.outcome = {"BTC", "ETH"}
    /\ effects.outcome["BTC"] = "error" /\ effects.outcome["ETH"] = "ok"
    /\ DOMAIN subscribers = {"BTC", "ETH"}
    /\ subscribers["BTC"] = {"cb1", "cb2"}
    /\ BagCardinality(effects.calls) = 2

\* C17: when a callback called by a delivery throws, every price callback of
\* every symbol of the batch that succeeded and every error callback of every
\* symbol that failed is still called once, the cycle goes on as it would
\* have, and when it ends the in-flight flag is cleared.
C17_ThrowIsIsolated ==
    (effects.op = "results" /\ \E x \in BagToSet(effects.calls) : x.cb \in effects.throwers) =>
        /\ \A s \in DOMAIN effects.outcome :
              /\ (effects.outcome[s] = "ok" /\ s \in DOMAIN subscribers) =>
                    \A cb \in subscribers[s] :
                        \E x \in BagToSet(effects.calls) :
                            x.map = "subscribers" /\ x.key = s /\ x.cb = cb
                            /\ CopiesIn(x, effects.calls) = 1
              /\ (effects.outcome[s] # "ok" /\ s \in DOMAIN errorHandlers) =>
                    \A cb \in errorHandlers[s] :
                        \E x \in BagToSet(effects.calls) :
                            x.map = "errorHandlers" /\ x.key = s /\ x.cb = cb
                            /\ CopiesIn(x, effects.calls) = 1
        /\ last.op = "results"
        /\ ~last.more => ~isPolling

\* C17's case: a price callback has thrown in a delivery that also called a
\* second callback of the same symbol and a callback of another symbol, and
\* the cycle has ended.
C17_Witness ==
    /\ effects.op = "results"
    /\ effects.throwers = {"cb1"}
    /\ DOMAIN effects.outcome = {"BTC", "ETH"}
    /\ \A s \in {"BTC", "ETH"} : effects.outcome[s] = "ok"
    /\ BagCardinality(effects.calls) = 3
    /\ ~last.more /\ ~isPolling /\ cycles = << >>

\* C18: a price callback is called by a delivery for a symbol only if it is
\* registered under that symbol when the delivery is made: one that was
\* unsubscribed and not subscribed again is not called, even by a cycle that
\* was started before the unsubscribe.
C18_NoCallAfterUnsubscribe ==
    effects.op = "results" =>
        \A x \in BagToSet(effects.calls) :
            x.map = "subscribers" =>
                /\ x.key \in DOMAIN subscribers
                /\ x.cb \in subscribers[x.key]

\* C18's case: a cycle over two symbols has delivered a success for both
\* after the callback of one of them was unsubscribed, and has called the
\* callback of the other only.
C18_Witness ==
    /\ effects.op = "results"
    /\ DOMAIN effects.outcome = {"BTC", "ETH"}
    /\ \A s \in {"BTC", "ETH"} : effects.outcome[s] = "ok"
    /\ DOMAIN subscribers = {"ETH"}
    /\ BagCardinality(effects.calls) = 1

\* C19: a call of subscribe whose callback is already registered under the
\* symbol (and whose error handler, if one is passed, is too) changes neither
\* the registry nor the timers, starts no fetch cycle, and no delivery calls
\* a callback more than once for a result.
C19_ResubscribeIsNoOp ==
    [][ /\ \A a \in Calls :
              (/\ a[1] \in DOMAIN subscribers
               /\ a[2] \in subscribers[a[1]]
               /\ a[3] # None => (a[1] \in DOMAIN errorHandlers /\ a[3] \in errorHandlers[a[1]])
               /\ Subscribe(a[1], a[2], a[3])) =>
                  UNCHANGED <<subscribers, keyOrder, errorHandlers, pollingInterval,
                              backoffTimeout, strayTimeouts, currentBackoff,
                              isPolling, cycles>>
        /\ effects'.op = "results" =>
              \A x \in BagToSet(effects'.calls) : CopiesIn(x, effects'.calls) = 1 ]_vars

\* C19's case: a second subscribe of the one callback of the one symbol has
\* returned while no cycle was in flight, and none is.
C19_Witness ==
    /\ last.op = "subscribe" /\ ~last.fresh
    /\ DOMAIN subscribers = {"BTC"} /\ subscribers["BTC"] = {"cb1"}
    /\ cycles = << >> /\ ~isPolling

\* C20: one call of coingeckoApi makes at most MAX_RETRIES requests, whatever
\* the responses; after a timeout or a network failure on attempt k < 3 it
\* waits min(2000 * 2^(k-1), 10000) ms before the next attempt; and a call
\* that returns, returns the parsed body of its last response, which is its
\* first that was a 2xx with a body that parses to a truthy value.
C20_AtMostThreeRequests ==
    /\ Len(api.responses) <= 3
    /\ \A k \in 1 .. Len(api.responses) :
          (api.responses[k].kind = "reject" /\ k < 3) =>
              /\ Len(api.waits) >= k
              /\ api.waits[k] = << 2000, 4000 >>[k]
              /\ api.waits[k] <= 10000
    /\ api.status = "running" => Len(api.responses) = api.attempt - 1
    /\ api.status = "returned" =>
          LET n == Len(api.responses)
              good(r) == /\ r.kind = "response" /\ r.status = 200
                         /\ r.text \in {"[1]", "[2]"}
          IN  /\ n >= 1
              /\ good(api.responses[n])
              /\ \A j \in 1 .. n - 1 : ~good(api.responses[j])
              /\ api.data.items = IF api.responses[n].text = "[1]" THEN << 1 >> ELSE << 2 >>

\* C20's case: a call has returned the body of its third response after a
\* timeout and a network failure.
C20_Witness ==
    /\ api.status = "returned"
    /\ Len(api.responses) = 3
    /\ api.responses[1].error = "AbortError"
    /\ api.responses[2].error = "TypeError"
    /\ api.waits = << 2000, 4000, 0 >>
    /\ api.data.items = << 2 >>

\* C21: after a 429 on an attempt before the last, the client waits the
\* retry-after value of the response in seconds, whatever the value, and the
\* computed backoff 2000 * 2^(attempt-1) ms only when the response carries
\* none.
C21_RetryAfterHonored ==
    \A k \in 1 .. Len(api.responses) :
        (api.responses[k].status = 429 /\ k < 3) =>
            /\ Len(api.waits) >= k
            /\ api.waits[k] = IF api.responses[k].retryAfter # NoHeader
                              THEN api.responses[k].retryAfter * 1000
                              ELSE << 2000, 4000 >>[k]

\* C22: a response with a status that is neither 2xx nor 429 ends the call
\* with an error at once: it is the last response of the call, and no delay
\* is awaited after it.
C22_NonOkIsTerminal ==
    \A k \in 1 .. Len(api.responses) :
        (/\ api.responses[k].kind = "response"
         /\ api.responses[k].status # 429
         /\ (api.responses[k].status < 200 \/ api.responses[k].status > 299)) =>
            /\ api.status = "threw"
            /\ k = Len(api.responses)
            /\ api.waits[k] = 0

\* C23: a 2xx response whose body is not JSON, or is empty, ends the call at
\* once with the parse error: it is the last response of the call, and the
\* error thrown to the caller is that parse error.
C23_BadBodyIsTerminal ==
    \A k \in 1 .. Len(api.responses) :
        (/\ api.responses[k].kind = "response"
         /\ api.responses[k].status = 200
         /\ api.responses[k].text \in {"<html>", "null"}) =>
            /\ api.status = "threw"
            /\ k = Len(api.responses)
            /\ api.message = IF api.responses[k].text = "null"
                             THEN "Empty response received"
                             ELSE "Invalid JSON response"

\* C24: a call whose three attempts all failed by a timeout, a network
\* failure or a 429 throws an error that carries the message of the failure
\* of the third attempt.
C24_LastFailureCarried ==
    (/\ Len(api.responses) = 3
     /\ \A k \in 1 .. 3 : api.responses[k].kind = "reject" \/ api.responses[k].status = 429) =>
        /\ api.status = "threw"
        /\ Carried(api) # ""
        /\ api.responses[3].kind = "reject" => Carried(api) = api.responses[3].error

\* C25: when every attempt of the call of a quote was answered 429, the poll
\* cycle that awaited the quote ends with the Feed in Backoff: recurring
\* timer disarmed, backoff timer armed, currentBackoff doubled.
C25_ExhaustedRateLimitBacksOff ==
    (/\ api.status = "delivered"
     /\ Len(api.responses) = MAX_RETRIES
     /\ \A k \in 1 .. Len(api.responses) : api.responses[k].status = 429) =>
        /\ ~pollingInterval
        /\ backoffTimeout
        /\ currentBackoff = 2 * MIN_BACKOFF

\* The detector has run its effect on the props it holds.
Evaluated(method) ==
    /\ detector.evaluations > 0
    /\ ~detector.effectPending
    /\ detector.method = method
    /\ Len(detector.historicalPricesUSD) >= 2

\* The verdict passed by the last call of onAnomalyDetected.
Verdict == detector.onAnomalyDetected[Len(detector.onAnomalyDetected)]

\* The stats the detector holds.
Stats == detector.stats[1]

\* The k-th smallest of the numbers of s, and the median and the lower-bound
\* quartiles of s, said without sorting.
OrderStat(s, k) ==
    CHOOSE x \in { s[i] : i \in 1 .. Len(s) } :
        /\ Cardinality({ i \in 1 .. Len(s) : Lt(s[i], x) }) < k
        /\ Cardinality({ i \in 1 .. Len(s) : ~Lt(x, s[i]) }) >= k

MedianOf(s) ==
    IF Len(s) % 2 = 1 THEN OrderStat(s, (Len(s) + 1) \div 2)
    ELSE Div(Add(OrderStat(s, Len(s) \div 2), OrderStat(s, (Len(s) \div 2) + 1)),
             Num(2, 1))

Q1Of(s) == OrderStat(s, (Len(s) \div 4) + 1)
Q3Of(s) == OrderStat(s, ((3 * Len(s)) \div 4) + 1)

\* The sum of the prices of a history of whole prices, and of their squares.
RECURSIVE SumNum(_)
SumNum(s) == IF s = << >> THEN 0 ELSE Head(s).num + SumNum(Tail(s))
RECURSIVE SumSq(_)
SumSq(s) == IF s = << >> THEN 0 ELSE Head(s).num * Head(s).num + SumSq(Tail(s))

\* C26: with a history of fewer than 2 points the detector sets no stats and
\* never calls onAnomalyDetected, however often its effect runs; with 2 or
\* more points every run of the effect calls onAnomalyDetected once, with a
\* boolean, and sets stats.
C26_ShortHistoryNoResult ==
    LET d == detector
    IN  IF Len(d.historicalPricesUSD) < 2
        THEN d.stats = << >> /\ d.onAnomalyDetected = << >>
        ELSE /\ Len(d.onAnomalyDetected) = d.evaluations
             /\ \A k \in 1 .. Len(d.onAnomalyDetected) : d.onAnomalyDetected[k] \in BOOLEAN
             /\ d.evaluations > 0 => Len(d.stats) = 1

C26_Witness ==
    /\ Len(detector.historicalPricesUSD) = 1
    /\ detector.evaluations = 2
    /\ detector.method = "iqr"

C29_IqrBoundsTest ==
    Evaluated("iqr") =>
        LET h == detector.historicalPricesUSD
            live == detector.currentLivePriceUSD
            rawIQR == Sub(Q3Of(h), Q1Of(h))
            reach == Mul(Num(3, 2), rawIQR)
        IN  Verdict = (Lt(live, Sub(Q1Of(h), reach)) \/ Lt(Add(Q3Of(h), reach), live))

\* C30: iqr over a history of at least 2 prices: a live price equal to
\* q3 + 1.5 IQR is not flagged, and a live price one unit above it is.
C30_UpperBoundExclusive ==
    Evaluated("iqr") =>
        LET h == detector.historicalPricesUSD
            live == detector.currentLivePriceUSD
            upperBound == Add(Q3Of(h), Mul(Num(3, 2), Sub(Q3Of(h), Q1Of(h))))
        IN  /\ live = upperBound => ~Verdict
            /\ live = Add(upperBound, Num(1, 1)) => Verdict

\* C31: with a method string that is none of zscore, mad and iqr, the stats
\* set and the verdict passed are those of zscore for the same history and
\* live price.
C31_UnknownMethodIsZScore ==
    Evaluated("other") =>
        LET h == detector.historicalPricesUSD
            live == detector.currentLivePriceUSD
            s == detectAnomaliesZScore(h, live)
        IN  /\ Stats = s
            /\ Verdict = (~IsZero(s.std) /\ Lt(Num(2, 1), s.maxZscore))

\* a price flagged under the unknown method
C31_Witness == Evaluated("other") /\ Verdict

\* C32: zscore flags a live price exactly when it is more than 3 standard
\* deviations from the mean of the history, so not when it is between 2 and
\* 3 standard deviations from it.
C32_ThreeSigma ==
    Evaluated("zscore") =>
        LET h == detector.historicalPricesUSD
            n == Len(h)
            a == detector.currentLivePriceUSD.num
            b == detector.currentLivePriceUSD.den
            V == n * SumSq(h) - SumNum(h) * SumNum(h)
            D == n * a - SumNum(h) * b
        IN  Verdict = (V # 0 /\ D * D > 9 * b * b * V)

\* C33: for a history that is not empty, calculateMedian gives the middle
\* element of the ascending order for an odd length and the average of the
\* two middle ones for an even length (2 for [1,2,3], 2.5 for [1,2,3,4]);
\* the quartiles are the elements at the indices floor(n / 4) and
\* floor(3n / 4) of the ascending order, which is what the stats of mad and
\* iqr are built on; and a run of the effect leaves the history it was given
\* in the order it had.
C33_OrderStatistics ==
    [][detector'.evaluations > detector.evaluations =>
         LET h == detector.historicalPricesUSD
             d == detector'
             deviations == [k \in 1 .. Len(h) |-> MathAbs(Sub(h[k], MedianOf(h)))]
         IN  /\ d.historicalPricesUSD = h
             /\ calculateMedian(<< Num(1, 1), Num(2, 1), Num(3, 1) >>) = Num(2, 1)
             /\ calculateMedian(<< Num(1, 1), Num(2, 1), Num(3, 1), Num(4, 1) >>)
                   = Num(5, 2)
             /\ Len(h) >= 1 =>
                   /\ calculateMedian(h) = MedianOf(h)
                   /\ Quartile(Sort(h), 1) = Q1Of(h)
                   /\ Quartile(Sort(h), 3) = Q3Of(h)
                   /\ \A k \in 1 .. Len(h) - 1 : ~Lt(Sort(h)[k + 1], Sort(h)[k])
             /\ (Len(h) >= 2 /\ d.method = "mad") =>
                   d.stats[1].std = Mul(MedianOf(deviations), Num(7413, 5000))
             /\ (Len(h) >= 2 /\ d.method = "iqr") =>
                   d.stats[1].threshold = Mul(Num(3, 2), Sub(Q3Of(h), Q1Of(h)))]_vars

\* iqr has run on a history of even length that is not in ascending order
\* and whose quartiles differ
C33_Witness ==
    /\ Evaluated("iqr")
    /\ Len(detector.historicalPricesUSD) = 4
    /\ detector.historicalPricesUSD # Sort(detector.historicalPricesUSD)
    /\ ~IsZero(Stats.threshold)

\* C34: a tick of the recurring timer that fires while a cycle is in flight
\* starts no cycle and changes neither the registry, nor currentBackoff, nor
\* the timers, nor the in-flight flag; and it is not queued: a cycle is
\* started only by the step of a tick or of a subscribe, never by the step
\* that finishes a cycle.
C34_TickDroppedNotQueued ==
    [][ /\ (last'.op = "tick" /\ Len(cycles) > 0) =>
              UNCHANGED <<subscribers, keyOrder, errorHandlers, currentBackoff, cycles,
                          isPolling, pollingInterval, backoffTimeout, strayTimeouts>>
        /\ Len(cycles') > Len(cycles) => last'.op \in {"tick", "subscribe"}
        /\ last'.op = "results" => Len(cycles') <= Len(cycles) ]_vars

\* a tick has fired while a cycle was in flight, and the cycle is still the
\* only one
C34_Witness ==
    /\ last.op = "tick" /\ last.inFlight = 1 /\ ~last.started
    /\ Len(cycles) = 1

C37_ErrorHandlersMirror ==
    /\ DOMAIN errorHandlers \subseteq DOMAIN subscribers
    /\ \A symbol \in DOMAIN errorHandlers : errorHandlers[symbol] # {}
    /\ effects.op # "none" =>
          \A call \in BagToSet(effects.calls) :
              call.map = "errorHandlers" => call.key \in DOMAIN subscribers

\* C38: a cycle in flight eventually finishes (the oldest one does, again and
\* again, unless none is in flight), the step that finishes a cycle leaves
\* isPolling false, the flag is never set with no cycle in flight, and a set
\* flag is eventually cleared.
C38_CyclesFinish ==
    /\ [](isPolling => cycles # << >>)
    /\ [][Len(cycles') < Len(cycles) => ~isPolling']_vars
    /\ isPolling ~> ~isPolling
    /\ \/ []<>(cycles = << >>)
       \/ []<><<cycles # << >> /\ cycles' = Tail(cycles)>>_vars

\* A cycle over two batches has finished, and the flag is cleared.
C38_Witness ==
    /\ last.op = "results" /\ ~last.more
    /\ Len(keyOrder) > BATCH_SIZE
    /\ cycles = << >>
    /\ ~isPolling

\* C39: once a load has succeeded, and while none has failed, a step calls
\* loadData only if it is the firing of a 60 s poll timeout.
C39_LoadsOnlyOnPoll ==
    [][ (/\ cryptoPrice'.calls > cryptoPrice.calls
         /\ cryptoPrice.succeeded > 0
         /\ cryptoPrice.failed = 0) => cryptoPrice'.lastCall = "poll" ]_vars

====
